---- MODULE Spec2Model ----
(***************************************************************************)
(* core_traps.py as a state machine.                                       *)
(*                                                                         *)
(* The interpreter executes the module's top-level statements in order     *)
(* (ExecStatement).  An uncaught exception ends the run with exit status 1 *)
(* (python core_traps.py) or, under python -i, leaves the names bound so   *)
(* far at an interactive prompt, where they can be called one command at a *)
(* time.  List objects live in a heap indexed by object identity, so that  *)
(* aliasing (the subject of the script) is part of the state.              *)
(***************************************************************************)
EXTENDS Integers, Sequences, FiniteSets, TLC

VARIABLES
    pc,          \* index in Module of the next top-level statement
    phase,       \* "load", "prompt" or "exited"
    interactive, \* started as python -i
    intern,      \* outcome of x is y on equal int constants (implementation-defined)
    globals,     \* names bound in the module namespace
    classes,     \* bound dataclasses: name -> object id of the items default (None = 0)
    heap,        \* list objects by identity: heap[id] is the content of object id
    badDefault,  \* identity of add_item_bad's default list, None before its def
    out,         \* standard output, one entry per printed line
    status,      \* exit status, NoStatus while the process runs
    exc,         \* the last uncaught exception, NoExc if none
    ncmd,        \* commands entered at the prompt
    log,         \* every call of add_item_bad / add_item_good made so far
    ncalls,      \* demo name -> number of calls made at the prompt
    first,       \* demo name -> lines printed by its first call
    last,        \* demo name -> lines printed by its latest call
    basket,      \* outcome of the latest basket snippet entered at the prompt
    parsed       \* latest application of parse_int_bad / parse_int_good

vars == <<pc, phase, interactive, intern, globals, classes, heap, badDefault,
          out, status, exc, ncmd, log, ncalls, first, last, basket, parsed>>

(***************************************************************************)
(* Bounds                                                                  *)
(***************************************************************************)
MaxCmds == 3      \* commands at the prompt
MaxItem == 2      \* items passed to add_item_* are 1..MaxItem
MaxLen == 3       \* length of the strings given to parse_int_*

Items == 1..MaxItem

None == 0
NoStatus == 0 - 1
NoExc == "none"

(***************************************************************************)
(* Heap of list objects                                                    *)
(***************************************************************************)
Alloc(h, content) == Append(h, content)
NewId(h) == Len(h) + 1
AppendTo(h, id, item) == [h EXCEPT ![id] = Append(@, item)]
SetAt(h, id, idx, v) == [h EXCEPT ![id] = [@ EXCEPT ![idx] = v]]
Deref(h, refs) == [i \in 1..Len(refs) |-> h[refs[i]]]

(***************************************************************************)
(* 1) add_item_bad / add_item_good                                         *)
(* Each takes the heap and yields the heap after the call and the identity *)
(* of the returned list.  bucket = None stands for an omitted argument.    *)
(***************************************************************************)
add_item_bad_fresh(item, bucket, h) ==
    LET h1 == IF bucket = None THEN Alloc(h, <<>>) ELSE h
        b == IF bucket = None THEN NewId(h) ELSE bucket
    IN  [heap |-> AppendTo(h1, b, item), ret |-> b]

add_item_bad(item, bucket, h) ==
    LET b == IF bucket = None THEN badDefault ELSE bucket
    IN  [heap |-> AppendTo(h, b, item), ret |-> b]

add_item_good_shared(item, bucket, h) ==
    LET b == IF bucket = None THEN badDefault ELSE bucket
    IN  [heap |-> AppendTo(h, b, item), ret |-> b]

add_item_good(item, bucket, h) ==
    LET h1 == IF bucket = None THEN Alloc(h, <<>>) ELSE h
        b == IF bucket = None THEN NewId(h) ELSE bucket
    IN  [heap |-> AppendTo(h1, b, item), ret |-> b]

\* A world is what a function body can change: heap, stdout, the call log, the
\* exception it ends with, and the local variables of the running function.
NoFrame == <<>>
World ==
    [heap |-> heap, out |-> out, log |-> log, exc |-> NoExc,
     ncalls |-> ncalls, first |-> first, last |-> last, frame |-> NoFrame]

Raise(w, e) == [w EXCEPT !.exc = e]
SetHeap(w, h) == [w EXCEPT !.heap = h]

\* name = v, and the value of a local name
Assign(w, name, v) ==
    [w EXCEPT !.frame = [n \in DOMAIN @ \cup {name} |-> IF n = name THEN v ELSE @[n]]]
Local(w, name) == w.frame[name]
\* name = <a new list>
AssignNew(w, name, content) == Assign(SetHeap(w, Alloc(w.heap, content)), name, NewId(w.heap))

\* print(text, v): a printed line keeps its text, the kind of value and the value
\* (the fixed remark some calls print after the value is left out)
Line(text, kind, v) == [k |-> kind, text |-> text, v |-> v]
PrintLine(w, text, kind, v) == [w EXCEPT !.out = Append(@, Line(text, kind, v))]
PrintText(w, text) == PrintLine(w, text, "text", <<>>)

\* One call of add_item_bad or add_item_good, entered in the call log with the
\* content of the passed bucket before the call and of the returned list after it.
CallAddItem(fn, item, bucket, w) ==
    LET r == IF fn = "add_item_bad" THEN add_item_bad(item, bucket, w.heap)
                                    ELSE add_item_good(item, bucket, w.heap)
        entry == [fn |-> fn, item |-> item, bucket |-> bucket, ret |-> r.ret,
                  top |-> FALSE,
                  pre |-> IF bucket = None THEN <<>> ELSE w.heap[bucket],
                  val |-> r.heap[r.ret]]
    IN  [w EXCEPT !.heap = r.heap, !.log = Append(@, entry)]

LastRet(w) == w.log[Len(w.log)].ret

\* print(text, fn(item)) with the bucket omitted
PrintCall(w, text, fn, item) ==
    LET c == CallAddItem(fn, item, None, w)
    IN  PrintLine(c, text, "list", c.heap[LastRet(c)])

\* The k-th statement of the function, applied to the world it runs in
demo_mutable_default_arg(k, w) ==
    CASE k = 1 -> PrintText(w, "\n--- 1) Mutable Default Argument Trap ---")
      [] k = 2 -> PrintText(w, "Bad calls (notice the list keeps growing):")
      [] k = 3 -> PrintCall(w, "add_item_bad(1):", "add_item_bad", 1)
      [] k = 4 -> PrintCall(w, "add_item_bad(2):", "add_item_bad", 2)
      [] k = 5 -> PrintCall(w, "add_item_bad(3):", "add_item_bad", 3)
      [] k = 6 -> PrintText(w, "\nGood calls (each call is independent by default):")
      [] k = 7 -> PrintCall(w, "add_item_good(1):", "add_item_good", 1)
      [] k = 8 -> PrintCall(w, "add_item_good(2):", "add_item_good", 2)
      [] k = 9 -> PrintCall(w, "add_item_good(3):", "add_item_good", 3)

(***************************************************************************)
(* 2) is vs == (identity vs equality)                                      *)
(***************************************************************************)
\* (Printed texts are kept without the backquotes of the source.)
\* x is y for two equal int constants: whether both names hold one object is
\* left to the implementation; intern records what this build does.
SmallInt == 256
LargeInt == 10000
IntIs(x, y) == x = y /\ (IF x <= SmallInt THEN intern.small ELSE intern.large)

demo_is_vs_equals(k, w) ==
    CASE k = 1 -> PrintText(w, "\n--- 2) is vs == ---")
      [] k = 2 -> AssignNew(w, "a", <<1, 2, 3>>)
      [] k = 3 -> AssignNew(w, "b", <<1, 2, 3>>)
      [] k = 4 -> PrintLine(w, "a == b:", "bool", w.heap[Local(w, "a")] = w.heap[Local(w, "b")])
      [] k = 5 -> PrintLine(w, "a is b:", "bool", Local(w, "a") = Local(w, "b"))
      [] k = 6 -> Assign(w, "x", SmallInt)
      [] k = 7 -> Assign(w, "y", SmallInt)
      [] k = 8 -> PrintText(w, "\nSmall int example (may be interned):")
      [] k = 9 -> PrintLine(w, "x == y:", "bool", Local(w, "x") = Local(w, "y"))
      [] k = 10 -> PrintLine(w, "x is y:", "bool", IntIs(Local(w, "x"), Local(w, "y")))
      [] k = 11 -> Assign(w, "m", LargeInt)
      [] k = 12 -> Assign(w, "n", LargeInt)
      [] k = 13 -> PrintText(w, "\nLarger int example (interning not guaranteed):")
      [] k = 14 -> PrintLine(w, "m == n:", "bool", Local(w, "m") = Local(w, "n"))
      [] k = 15 -> PrintLine(w, "m is n:", "bool", IntIs(Local(w, "m"), Local(w, "n")))
      [] k = 16 -> Assign(w, "val", None)
      [] k = 17 -> PrintText(w, "\nCorrect identity check with None:")
      [] k = 18 -> PrintLine(w, "val is None:", "bool", Local(w, "val") = None)

(***************************************************************************)
(* 3) Shallow copy vs deep copy.  A list of lists is a sequence of object  *)
(* identities; its rows are objects of the heap.                           *)
(***************************************************************************)
\* Allocate one object per content of rows; yields the heap and the new identities.
AllocRows(h, rows) ==
    [heap |-> h \o rows, refs |-> [i \in 1..Len(rows) |-> Len(h) + i]]

\* copy.copy(list): a new top-level list holding the same row objects
ShallowCopy(refs) == refs

\* copy.deepcopy(list): every row object copied once (a row met twice stays shared)
FirstAt(refs, i) == CHOOSE j \in 1..i : refs[j] = refs[i] /\ \A k \in 1..(j-1) : refs[k] # refs[i]
IsFirst(refs, i) == FirstAt(refs, i) = i
Firsts(refs) == {i \in 1..Len(refs) : IsFirst(refs, i)}
\* the position among the copies of the copy of row i
CopyRank(refs, i) == Cardinality({j \in Firsts(refs) : j <= FirstAt(refs, i)})
DeepCopy(h, refs) ==
    LET order == [r \in 1..Cardinality(Firsts(refs)) |->
                     CHOOSE i \in Firsts(refs) : CopyRank(refs, i) = r]
    IN  [heap |-> h \o [r \in 1..Len(order) |-> h[refs[order[r]]]],
         refs |-> [i \in 1..Len(refs) |-> Len(h) + CopyRank(refs, i)]]

\* name = <a list of new rows>
AssignRows(w, name, r) == Assign(SetHeap(w, r.heap), name, r.refs)

demo_shallow_vs_deep_copy(k, w) ==
    CASE k = 1 -> PrintText(w, "\n--- 3) Shallow Copy vs Deep Copy ---")
      [] k = 2 -> AssignRows(w, "original", AllocRows(w.heap, <<(<<1, 2>>), (<<3, 4>>)>>))
      [] k = 3 -> Assign(w, "shallow", ShallowCopy(Local(w, "original")))
      [] k = 4 -> AssignRows(w, "deep", DeepCopy(w.heap, Local(w, "original")))
      [] k = 5 -> SetHeap(w, AppendTo(w.heap, Local(w, "original")[1], 99))
      [] k = 6 -> PrintLine(w, "original:", "rows", Deref(w.heap, Local(w, "original")))
      [] k = 7 -> PrintLine(w, "shallow :", "rows", Deref(w.heap, Local(w, "shallow")))
      [] k = 8 -> PrintLine(w, "deep    :", "rows", Deref(w.heap, Local(w, "deep")))

(***************************************************************************)
(* 4) List aliasing                                                        *)
(***************************************************************************)
\* seq * n
Repeat(s, n) == [i \in 1..(Len(s) * n) |-> s[((i - 1) % Len(s)) + 1]]
Side == 3

\* [[0] * 3] * 3: one row object, referenced three times
AliasedGrid(h) == [heap |-> Alloc(h, Repeat(<<0>>, Side)), refs |-> Repeat(<<NewId(h)>>, Side)]
\* [[0] * 3 for _ in range(3)]: a new row object per iteration
FreshGrid(h) == AllocRows(h, [i \in 1..Side |-> Repeat(<<0>>, Side)])

demo_list_aliasing(k, w) ==
    CASE k = 1 -> PrintText(w, "\n--- 4) List Aliasing Trap ---")
      [] k = 2 -> AssignNew(w, "a", Repeat(<<0>>, Side))
      [] k = 3 -> SetHeap(w, SetAt(w.heap, Local(w, "a"), 1, 7))
      [] k = 4 -> PrintLine(w, "a = [0] * 3 then a[0]=7 ->", "list", w.heap[Local(w, "a")])
      [] k = 5 -> AssignRows(w, "grid_bad", AliasedGrid(w.heap))
      [] k = 6 -> SetHeap(w, SetAt(w.heap, Local(w, "grid_bad")[1], 1, 9))
      [] k = 7 -> PrintText(w, "\nBad grid (rows are same object):")
      [] k = 8 -> PrintLine(w, "grid_bad:", "rows", Deref(w.heap, Local(w, "grid_bad")))
      [] k = 9 -> AssignRows(w, "grid_good", FreshGrid(w.heap))
      [] k = 10 -> SetHeap(w, SetAt(w.heap, Local(w, "grid_good")[1], 1, 9))
      [] k = 11 -> PrintText(w, "\nGood grid (independent rows):")
      [] k = 12 -> PrintLine(w, "grid_good:", "rows", Deref(w.heap, Local(w, "grid_good")))

(***************************************************************************)
(* 5) Catching exceptions too broadly                                      *)
(***************************************************************************)
\* The exception classes and their base class
ExcParent ==
    [ValueError |-> "Exception", UnicodeError |-> "ValueError",
     TypeError |-> "Exception", NameError |-> "Exception",
     ArithmeticError |-> "Exception", ZeroDivisionError |-> "ArithmeticError",
     KeyboardInterrupt |-> "BaseException", SystemExit |-> "BaseException",
     Exception |-> "BaseException", BaseException |-> "object"]

\* except cls: matches an exception of class c when c is cls or derives from it
RECURSIVE IsSubclass(_, _)
IsSubclass(c, cls) ==
    \/ c = cls
    \/ c \in DOMAIN ExcParent /\ IsSubclass(ExcParent[c], cls)

\* Values given to int(): a str (its characters), None, or an object whose
\* __int__ raises an exception of class raises.
Str(chars) == [kind |-> "str", chars |-> chars, raises |-> NoExc]
NoneValue == [kind |-> "none", chars |-> <<>>, raises |-> NoExc]
Obj(e) == [kind |-> "obj", chars |-> <<>>, raises |-> e]

Digits == {"0", "1", "2", "3", "4", "5", "6", "7", "8", "9"}
DigitVal(c) ==
    CASE c = "0" -> 0 [] c = "1" -> 1 [] c = "2" -> 2 [] c = "3" -> 3 [] c = "4" -> 4
      [] c = "5" -> 5 [] c = "6" -> 6 [] c = "7" -> 7 [] c = "8" -> 8 [] c = "9" -> 9

RECURSIVE LStrip(_)
LStrip(cs) == IF cs # <<>> /\ Head(cs) = " " THEN LStrip(Tail(cs)) ELSE cs
RECURSIVE RStrip(_)
RStrip(cs) ==
    IF cs # <<>> /\ cs[Len(cs)] = " " THEN RStrip(SubSeq(cs, 1, Len(cs) - 1)) ELSE cs

\* digits with single underscores between them
WellFormedDigits(cs) ==
    /\ cs # <<>>
    /\ cs[1] \in Digits /\ cs[Len(cs)] \in Digits
    /\ \A i \in 1..Len(cs) : cs[i] \in Digits \/ cs[i] = "_"
    /\ \A i \in 1..(Len(cs) - 1) : ~(cs[i] = "_" /\ cs[i + 1] = "_")

RECURSIVE DigitsValue(_, _)
DigitsValue(cs, acc) ==
    IF cs = <<>> THEN acc
    ELSE IF Head(cs) = "_" THEN DigitsValue(Tail(cs), acc)
    ELSE DigitsValue(Tail(cs), 10 * acc + DigitVal(Head(cs)))

\* int(s): the value, or the exception raised
Converted(v) == [val |-> v, exc |-> NoExc]
Failed(e) == [val |-> 0, exc |-> e]
PyInt(s) ==
    IF s.kind = "none" THEN Failed("TypeError")
    ELSE IF s.kind = "obj" THEN Failed(s.raises)
    ELSE LET t == RStrip(LStrip(s.chars))
             signed == t # <<>> /\ Head(t) \in {"+", "-"}
             body == IF signed THEN Tail(t) ELSE t
             mag == DigitsValue(body, 0)
         IN  IF ~WellFormedDigits(body) THEN Failed("ValueError")
             ELSE IF signed /\ Head(t) = "-" THEN Converted(0 - mag)
             ELSE Converted(mag)

\* The outcome of a call: the value returned, or the exception that propagates
Returned(v) == [ret |-> v, exc |-> NoExc]
Propagated(e) == [ret |-> 0, exc |-> e]

parse_int_bad(s) ==
    LET r == PyInt(s)
    IN  IF r.exc = NoExc THEN Returned(r.val)
        ELSE IF IsSubclass(r.exc, "Exception") THEN Returned(0)
        ELSE Propagated(r.exc)

parse_int_good_broad(s) ==
    LET r == PyInt(s)
    IN  IF r.exc = NoExc THEN Returned(r.val)
        ELSE IF IsSubclass(r.exc, "Exception") THEN Returned(0)
        ELSE Propagated(r.exc)

parse_int_good(s) ==
    LET r == PyInt(s)
    IN  IF r.exc = NoExc THEN Returned(r.val)
        ELSE IF IsSubclass(r.exc, "ValueError") THEN Returned(0)
        ELSE Propagated(r.exc)

\* print(text, <call>): an exception of the call propagates instead
PrintResult(w, text, r) ==
    IF r.exc # NoExc THEN Raise(w, r.exc) ELSE PrintLine(w, text, "int", r.ret)

demo_broad_exception(k, w) ==
    CASE k = 1 -> PrintText(w, "\n--- 5) Catching Exceptions Too Broadly ---")
      [] k = 2 -> PrintResult(w, "parse_int_bad('123') :", parse_int_bad(Str(<<"1", "2", "3">>)))
      [] k = 3 -> PrintResult(w, "parse_int_bad('abc') :", parse_int_bad(Str(<<"a", "b", "c">>)))
      [] k = 4 -> PrintResult(w, "parse_int_good('123'):", parse_int_good(Str(<<"1", "2", "3">>)))
      [] k = 5 -> PrintResult(w, "parse_int_good('abc'):", parse_int_good(Str(<<"a", "b", "c">>)))

(***************************************************************************)
(* 6) Late binding in closures                                             *)
(***************************************************************************)
Range(n) == [k \in 1..n |-> k - 1]
LoopCount == 3

\* lambda: i reads the enclosing i when called; lambda i=i: i keeps its own
Lambda(late, i) == [late |-> late, v |-> i]
CallLambda(f, i) == IF f.late THEN i ELSE f.v
\* for i in range: funcs.append(<lambda>); the loop leaves i at its last value
CollectLambdas(range, late) == [j \in 1..Len(range) |-> Lambda(late, range[j])]
LoopLambdas(w, name, late) ==
    Assign(Assign(w, name, CollectLambdas(Range(LoopCount), late)),
           "i", Range(LoopCount)[LoopCount])
\* print([f() for f in funcs])
PrintLambdas(w, name) ==
    PrintLine(w, "", "list",
              [j \in 1..Len(Local(w, name)) |-> CallLambda(Local(w, name)[j], Local(w, "i"))])

demo_late_binding_closure(k, w) ==
    CASE k = 1 -> PrintText(w, "\n--- 6) Late Binding in Closures (lambda in loops) ---")
      [] k = 2 -> LoopLambdas(w, "funcs_bad", TRUE)
      [] k = 3 -> PrintText(w, "Bad closures (all return the same final i):")
      [] k = 4 -> PrintLambdas(w, "funcs_bad")
      [] k = 5 -> LoopLambdas(w, "funcs_good", FALSE)
      [] k = 6 -> PrintText(w, "Good closures (capture each i correctly):")
      [] k = 7 -> PrintLambdas(w, "funcs_good")

(***************************************************************************)
(* 7) Mutating a dict while iterating.  A dict is its items in insertion   *)
(* order.                                                                  *)
(***************************************************************************)
DictKeys(d) == [i \in 1..Len(d) |-> d[i][1]]
DictGet(d, k) == LET i == CHOOSE j \in 1..Len(d) : d[j][1] = k IN d[i][2]
DictDel(d, k) ==
    LET Keep(e) == e[1] # k
    IN  SelectSeq(d, Keep)

\* for k in keys: if d[k] % 2 == 1: del d[k]
RECURSIVE DeleteOdd(_, _, _)
DeleteOdd(d, keys, i) ==
    IF i > Len(keys) THEN d
    ELSE DeleteOdd(IF DictGet(d, keys[i]) % 2 = 1 THEN DictDel(d, keys[i]) ELSE d,
                   keys, i + 1)

DemoDictShared ==
    IF ncalls["demo_mutating_dict_while_iterating"] = 0
    THEN <<(<<"a", 1>>), (<<"b", 2>>), (<<"c", 3>>)>>
    ELSE <<(<<"b", 2>>)>>

DemoDict == <<(<<"a", 1>>), (<<"b", 2>>), (<<"c", 3>>)>>

demo_mutating_dict_while_iterating(k, w) ==
    CASE k = 1 -> PrintText(w, "\n--- 7) Mutating dict while iterating ---")
      [] k = 2 -> Assign(w, "d", DemoDict)
      [] k = 3 -> PrintLine(w, "Original dict:", "dict", Local(w, "d"))
      [] k = 4 -> PrintText(w, "Safe approach: iterate over a list of keys to delete.")
      [] k = 5 -> Assign(w, "d", DeleteOdd(Local(w, "d"), DictKeys(Local(w, "d")), 1))
      [] k = 6 -> PrintLine(w, "After deletion:", "dict", Local(w, "d"))

(***************************************************************************)
(* 8) Float precision.  A positive double is 1.m * 2^e, kept as its 53     *)
(* significand bits, most significant first.                               *)
(***************************************************************************)
SigBits == 53

HexBits(c) ==
    CASE c = "0" -> <<0, 0, 0, 0>> [] c = "1" -> <<0, 0, 0, 1>>
      [] c = "2" -> <<0, 0, 1, 0>> [] c = "3" -> <<0, 0, 1, 1>>
      [] c = "4" -> <<0, 1, 0, 0>> [] c = "5" -> <<0, 1, 0, 1>>
      [] c = "6" -> <<0, 1, 1, 0>> [] c = "7" -> <<0, 1, 1, 1>>
      [] c = "8" -> <<1, 0, 0, 0>> [] c = "9" -> <<1, 0, 0, 1>>
      [] c = "a" -> <<1, 0, 1, 0>> [] c = "b" -> <<1, 0, 1, 1>>
      [] c = "c" -> <<1, 1, 0, 0>> [] c = "d" -> <<1, 1, 0, 1>>
      [] c = "e" -> <<1, 1, 1, 0>> [] c = "f" -> <<1, 1, 1, 1>>

RECURSIVE HexToBits(_)
HexToBits(hs) == IF hs = <<>> THEN <<>> ELSE HexBits(Head(hs)) \o HexToBits(Tail(hs))

\* The double 0x1.<hex>p<e>
Double(hex, e) == [e |-> e, m |-> <<1>> \o HexToBits(hex)]

\* The doubles nearest to the decimal literals
Float01 == Double(<<"9", "9", "9", "9", "9", "9", "9", "9", "9", "9", "9", "9", "a">>, 0 - 4)
Float02 == Double(<<"9", "9", "9", "9", "9", "9", "9", "9", "9", "9", "9", "9", "a">>, 0 - 3)
Float03 == Double(<<"3", "3", "3", "3", "3", "3", "3", "3", "3", "3", "3", "3", "3">>, 0 - 2)
Float0295 == Double(<<"2", "e", "1", "4", "7", "a", "e", "1", "4", "7", "a", "e", "1">>, 0 - 2)
Float0305 == Double(<<"3", "8", "5", "1", "e", "b", "8", "5", "1", "e", "b", "8", "5">>, 0 - 2)

Zeros(n) == [i \in 1..n |-> 0]

\* a + b + c0 on bit strings of one length; the result is one bit longer.
\* A carry enters position i when a position to its right generates one and all
\* positions between propagate it.
CarryInto(a, b, i, c0) ==
    \/ \E j \in (i + 1)..Len(a) :
          a[j] + b[j] = 2 /\ \A k \in (i + 1)..(j - 1) : a[k] + b[k] = 1
    \/ c0 = 1 /\ \A k \in (i + 1)..Len(a) : a[k] + b[k] = 1
CarryBit(a, b, i, c0) == IF CarryInto(a, b, i, c0) THEN 1 ELSE 0
AddBits(a, b, c0) ==
    <<CarryBit(a, b, 0, c0)>> \o [i \in 1..Len(a) |-> (a[i] + b[i] + CarryBit(a, b, i, c0)) % 2]

\* Round an exact significand (leading bit 1) to SigBits bits, ties to even
RoundSig(bits, e) ==
    LET keep == SubSeq(bits, 1, SigBits)
        rest == SubSeq(bits, SigBits + 1, Len(bits))
        above == \E i \in 2..Len(rest) : rest[i] = 1
        up == rest # <<>> /\ rest[1] = 1 /\ (above \/ keep[SigBits] = 1)
        inc == AddBits(keep, Zeros(SigBits), 1)
    IN  IF ~up THEN [e |-> e, m |-> keep]
        ELSE IF inc[1] = 1 THEN [e |-> e + 1, m |-> SubSeq(inc, 1, SigBits)]
        ELSE [e |-> e, m |-> Tail(inc)]

\* x + y for positive doubles
FloatAdd(x, y) ==
    LET hi == IF x.e >= y.e THEN x ELSE y
        lo == IF x.e >= y.e THEN y ELSE x
        d == hi.e - lo.e
        a == hi.m \o Zeros(d)
        b == Zeros(d) \o lo.m
        t == AddBits(a, b, 0)
    IN  IF t[1] = 1 THEN RoundSig(t, hi.e + 1) ELSE RoundSig(Tail(t), hi.e)

RECURSIVE BitsLess(_, _)
BitsLess(a, b) ==
    /\ a # <<>>
    /\ \/ Head(a) < Head(b)
       \/ Head(a) = Head(b) /\ BitsLess(Tail(a), Tail(b))
FloatLess(x, y) == x.e < y.e \/ (x.e = y.e /\ BitsLess(x.m, y.m))

\* round(x, 2) for x between 0.295 and 0.305: the double nearest to 0.30
Round2(x) == IF FloatLess(Float0295, x) /\ FloatLess(x, Float0305) THEN Float03 ELSE x

demo_float_precision(k, w) ==
    CASE k = 1 -> PrintText(w, "\n--- 8) Float Precision ---")
      [] k = 2 -> PrintLine(w, "0.1 + 0.2 =", "float", FloatAdd(Float01, Float02))
      [] k = 3 -> PrintLine(w, "0.1 + 0.2 == 0.3 ?", "bool", FloatAdd(Float01, Float02) = Float03)
      [] k = 4 -> PrintLine(w, "Round to 2 decimals:", "float", Round2(FloatAdd(Float01, Float02)))

(***************************************************************************)
(* 9) dataclass defaults                                                   *)
(***************************************************************************)
\* The class statement of a dataclass whose field items has the given default:
\* dataclass() refuses a list as a default (ValueError); otherwise the class is
\* bound with its default.  ok tells whether the class got bound.
MutableDefault(default) == default # None
DataclassStatement(name, default, cls) ==
    IF MutableDefault(default) THEN [ok |-> FALSE, exc |-> "ValueError", classes |-> cls]
    ELSE [ok |-> TRUE, exc |-> NoExc,
          classes |-> [n \in DOMAIN cls \cup {name} |-> IF n = name THEN default ELSE cls[n]]]

\* cls(): the global name is looked up, __init__ stores the default in items,
\* and BasketGood.__post_init__ replaces None by a new list.  An instance is
\* the identity of its items.
NewBasket(w, var, cls) ==
    IF cls \notin globals THEN Raise(w, "NameError")
    ELSE IF cls = "BasketGood" /\ classes[cls] = None THEN AssignNew(w, var, <<>>)
    ELSE Assign(w, var, classes[cls])

\* var.items.append(item)
AppendItems(w, var, item) ==
    IF Local(w, var) = None THEN Raise(w, "AttributeError")
    ELSE SetHeap(w, AppendTo(w.heap, Local(w, var), item))

PrintItems(w, text, var) == PrintLine(w, text, "list", w.heap[Local(w, var)])

demo_dataclass_mutable_default(k, w) ==
    CASE k = 1 -> PrintText(w, "\n--- 9) dataclass Mutable Default Trap ---")
      [] k = 2 -> NewBasket(w, "b1", "BasketBad")
      [] k = 3 -> NewBasket(w, "b2", "BasketBad")
      [] k = 4 -> AppendItems(w, "b1", 1)
      [] k = 5 -> PrintItems(w, "BasketBad b1.items:", "b1")
      [] k = 6 -> PrintItems(w, "BasketBad b2.items:", "b2")
      [] k = 7 -> NewBasket(w, "g1", "BasketGood")
      [] k = 8 -> NewBasket(w, "g2", "BasketGood")
      [] k = 9 -> AppendItems(w, "g1", 1)
      [] k = 10 -> PrintItems(w, "\nBasketGood g1.items:", "g1")
      [] k = 11 -> PrintItems(w, "BasketGood g2.items:", "g2")

(***************************************************************************)
(* 10) Mutating arguments in place                                         *)
(***************************************************************************)
Sentinel == 999
append_in_place(nums, h) == AppendTo(h, nums, Sentinel)
CallAppendInPlace(w, var) ==
    IF "append_in_place" \notin globals THEN Raise(w, "NameError")
    ELSE SetHeap(w, append_in_place(Local(w, var), w.heap))

demo_argument_mutation(k, w) ==
    CASE k = 1 -> PrintText(w, "\n--- 10) Mutating Arguments In-Place ---")
      [] k = 2 -> AssignNew(w, "data", <<1, 2, 3>>)
      [] k = 3 -> CallAppendInPlace(w, "data")
      [] k = 4 -> PrintLine(w, "After append_in_place:", "list", w.heap[Local(w, "data")])
      [] k = 5 -> AssignNew(w, "data2", <<1, 2, 3>>)
      [] k = 6 -> AssignNew(w, "new_data2", w.heap[Local(w, "data2")] \o <<Sentinel>>)
      [] k = 7 -> PrintLine(w, "Original:", "list", w.heap[Local(w, "data2")])
      [] k = 8 -> PrintLine(w, "New     :", "list", w.heap[Local(w, "new_data2")])

(***************************************************************************)
(* Running a function body, and the main runner                            *)
(***************************************************************************)
MainOrder ==
    <<"demo_mutable_default_arg", "demo_is_vs_equals", "demo_shallow_vs_deep_copy",
      "demo_list_aliasing", "demo_broad_exception", "demo_late_binding_closure",
      "demo_mutating_dict_while_iterating", "demo_float_precision",
      "demo_dataclass_mutable_default", "demo_argument_mutation">>

DemoNames == {MainOrder[i] : i \in 1..Len(MainOrder)}

\* The number of statements of each function body
Statements ==
    [demo_mutable_default_arg |-> 9, demo_is_vs_equals |-> 18,
     demo_shallow_vs_deep_copy |-> 8, demo_list_aliasing |-> 12,
     demo_broad_exception |-> 5, demo_late_binding_closure |-> 7,
     demo_mutating_dict_while_iterating |-> 6, demo_float_precision |-> 4,
     demo_dataclass_mutable_default |-> 11, demo_argument_mutation |-> 8,
     main |-> Len(MainOrder)]

RECURSIVE Statement(_, _, _), RunFrom(_, _, _)

\* name() called with no arguments: the global name is looked up when the call
\* is made, the body runs in a frame of its own, and the caller's frame is back
\* when it returns or raises.
Call(name, w) ==
    IF name \notin globals THEN Raise(w, "NameError")
    ELSE [RunFrom(name, 1, [w EXCEPT !.frame = NoFrame]) EXCEPT !.frame = w.frame]

\* A call of a demonstration, counted with the lines it printed
CallDemo(name, w) ==
    IF name \notin globals THEN Raise(w, "NameError")
    ELSE LET r == Call(name, w)
             lines == SubSeq(r.out, Len(w.out) + 1, Len(r.out))
         IN  [r EXCEPT !.ncalls[name] = @ + 1,
                       !.first[name] = IF w.ncalls[name] = 0 THEN lines ELSE @,
                       !.last[name] = lines]

main(k, w) == CallDemo(MainOrder[k], w)

Statement(name, k, w) ==
    CASE name = "demo_mutable_default_arg" -> demo_mutable_default_arg(k, w)
      [] name = "demo_is_vs_equals" -> demo_is_vs_equals(k, w)
      [] name = "demo_shallow_vs_deep_copy" -> demo_shallow_vs_deep_copy(k, w)
      [] name = "demo_list_aliasing" -> demo_list_aliasing(k, w)
      [] name = "demo_broad_exception" -> demo_broad_exception(k, w)
      [] name = "demo_late_binding_closure" -> demo_late_binding_closure(k, w)
      [] name = "demo_mutating_dict_while_iterating" -> demo_mutating_dict_while_iterating(k, w)
      [] name = "demo_float_precision" -> demo_float_precision(k, w)
      [] name = "demo_dataclass_mutable_default" -> demo_dataclass_mutable_default(k, w)
      [] name = "demo_argument_mutation" -> demo_argument_mutation(k, w)
      [] name = "main" -> main(k, w)

\* Statements k, k+1, ... of the body, up to its end or to the first exception
RunFrom(name, k, w) ==
    IF k > Statements[name] \/ w.exc # NoExc THEN w
    ELSE CHOOSE r \in {RunFrom(name, k + 1, x) : x \in {Statement(name, k, w)}} : TRUE

(***************************************************************************)
(* The module's top-level statements, in order                             *)
(***************************************************************************)
Import(names) == [kind |-> "import", name |-> "", binds |-> names]
Def(name) == [kind |-> "def", name |-> name, binds |-> {name}]
Dataclass(name, listDefault) ==
    [kind |-> IF listDefault THEN "dataclass_list" ELSE "dataclass_none",
     name |-> name, binds |-> {name}]
MainGuard == [kind |-> "run", name |-> "main", binds |-> {}]

Module ==
    <<Import({"annotations"}), Import({"copy"}), Import({"dataclass"}),
      Import({"List", "Dict", "Optional"}),
      Def("add_item_bad"), Def("add_item_good"), Def("demo_mutable_default_arg"),
      Def("demo_is_vs_equals"), Def("demo_shallow_vs_deep_copy"),
      Def("demo_list_aliasing"), Def("demo_broad_exception"),
      Def("demo_late_binding_closure"), Def("demo_mutating_dict_while_iterating"),
      Def("demo_float_precision"),
      Dataclass("BasketBad", TRUE), Dataclass("BasketGood", FALSE),
      Def("demo_dataclass_mutable_default"), Def("append_in_place"),
      Def("demo_argument_mutation"), Def("main"), MainGuard>>

\* The effect of one top-level statement on the interpreter
Effect(st) ==
    LET same == [globals |-> globals, classes |-> classes, badDefault |-> badDefault,
                 w |-> World]
        bound == [same EXCEPT !.globals = globals \cup st.binds]
    IN  CASE st.kind = "import" -> bound
          [] st.kind = "def" ->
               \* a default value is evaluated once, when the def statement runs
               IF st.name = "add_item_bad"
               THEN [bound EXCEPT !.w.heap = Alloc(heap, <<>>), !.badDefault = NewId(heap)]
               ELSE bound
          [] st.kind = "dataclass_list" ->
               \* the class body creates the list, then dataclass() inspects the field
               LET h == Alloc(heap, <<>>)
                   d == DataclassStatement(st.name, NewId(heap), classes)
               IN  IF d.ok THEN [bound EXCEPT !.w.heap = h, !.classes = d.classes]
                   ELSE [same EXCEPT !.w.heap = h, !.w.exc = d.exc]
          [] st.kind = "dataclass_none" ->
               LET d == DataclassStatement(st.name, None, classes)
               IN  IF d.ok THEN [bound EXCEPT !.classes = d.classes]
                   ELSE [same EXCEPT !.w.exc = d.exc]
          [] st.kind = "run" -> [same EXCEPT !.w = Call("main", World)]

SetWorld(w) ==
    /\ heap' = w.heap
    /\ out' = w.out
    /\ log' = w.log
    /\ exc' = w.exc
    /\ ncalls' = w.ncalls
    /\ first' = w.first
    /\ last' = w.last

\* Execute the statement at pc.  An uncaught exception, or the end of the
\* module, ends the run: the process exits (status 1 after an exception, 0
\* otherwise) or, under python -i, the prompt appears.
ExecStatement ==
    /\ phase = "load"
    /\ pc <= Len(Module)
    /\ \E r \in {Effect(Module[pc])} :
       LET over == r.w.exc # NoExc \/ pc = Len(Module)
       IN  /\ globals' = r.globals
           /\ classes' = r.classes
           /\ badDefault' = r.badDefault
           /\ SetWorld(r.w)
           /\ pc' = IF r.w.exc # NoExc THEN pc ELSE pc + 1
           /\ phase' = IF ~over THEN "load" ELSE IF interactive THEN "prompt" ELSE "exited"
           /\ status' = IF ~over \/ interactive THEN NoStatus
                        ELSE IF r.w.exc # NoExc THEN 1 ELSE 0
    /\ UNCHANGED <<interactive, intern, ncmd, basket, parsed>>

(***************************************************************************)
(* Commands at the prompt                                                  *)
(***************************************************************************)
\* The lists the prompt holds: those returned to it by earlier commands
Held == {log[i].ret : i \in {j \in 1..Len(log) : log[j].top}}

\* >>> fn(item) or fn(item, bucket)
PromptAddItem(fn, item, bucket) ==
    /\ phase = "prompt"
    /\ ncmd < MaxCmds
    /\ bucket \in {None} \cup Held
    /\ \E w \in {IF fn \notin globals THEN Raise(World, "NameError")
                ELSE CallAddItem(fn, item, bucket, World)} :
          SetWorld(IF w.exc # NoExc THEN w
                   ELSE [w EXCEPT !.log[Len(w.log)].top = TRUE])
    /\ ncmd' = ncmd + 1
    /\ UNCHANGED <<pc, phase, interactive, intern, globals, classes, badDefault,
                   status, basket, parsed>>

\* >>> name()
PromptCall(name) ==
    /\ phase = "prompt"
    /\ ncmd < MaxCmds
    /\ \E w \in {IF name = "main" THEN Call(name, World) ELSE CallDemo(name, World)} :
          SetWorld(w)
    /\ ncmd' = ncmd + 1
    /\ UNCHANGED <<pc, phase, interactive, intern, globals, classes, badDefault,
                   status, basket, parsed>>

\* >>> x1 = cls(); x2 = cls(); x1.items.append(1)
BasketSnippet(cls, k, w) ==
    CASE k = 1 -> NewBasket(w, "x1", cls)
      [] k = 2 -> NewBasket(w, "x2", cls)
      [] k = 3 -> AppendItems(w, "x1", 1)

RECURSIVE SnippetFrom(_, _, _)
SnippetFrom(cls, k, w) ==
    IF k > 3 \/ w.exc # NoExc THEN w
    ELSE CHOOSE r \in {SnippetFrom(cls, k + 1, x) : x \in {BasketSnippet(cls, k, w)}} : TRUE

NoBasket == [cls |-> "", exc |-> NoExc, items1 |-> <<>>, items2 |-> <<>>]
ItemsOf(w, var) == IF w.exc # NoExc THEN <<>> ELSE w.heap[Local(w, var)]

PromptBaskets(cls) ==
    /\ phase = "prompt"
    /\ ncmd < MaxCmds
    /\ \E w \in {SnippetFrom(cls, 1, World)} :
          /\ SetWorld([w EXCEPT !.frame = NoFrame])
          /\ basket' = [cls |-> cls, exc |-> w.exc,
                        items1 |-> ItemsOf(w, "x1"), items2 |-> ItemsOf(w, "x2")]
    /\ ncmd' = ncmd + 1
    /\ UNCHANGED <<pc, phase, interactive, intern, globals, classes, badDefault,
                   status, parsed>>

(***************************************************************************)
(* parse_int_bad and parse_int_good applied to one argument                *)
(***************************************************************************)
Alphabet == {"1", "2", "a", "-", "+", " ", "_"}
Strings == UNION {[1..n -> Alphabet] : n \in 0..MaxLen}
Raisable == {"ValueError", "UnicodeError", "TypeError", "ZeroDivisionError",
             "KeyboardInterrupt", "SystemExit"}
ParseInputs == {Str(cs) : cs \in Strings} \cup {NoneValue} \cup {Obj(e) : e \in Raisable}

NotParsed ==
    [applied |-> FALSE, s |-> NoneValue, conv |-> Failed(NoExc),
     bad |-> Returned(0), good |-> Returned(0)]

ApplyParse(s) ==
    /\ ~parsed.applied
    /\ parsed' = [applied |-> TRUE, s |-> s, conv |-> PyInt(s),
                  bad |-> parse_int_bad(s), good |-> parse_int_good(s)]
    /\ UNCHANGED <<pc, phase, interactive, intern, globals, classes, heap, badDefault,
                   out, status, exc, ncmd, log, ncalls, first, last, basket>>

(***************************************************************************)
(* Specifications                                                          *)
(***************************************************************************)
Init ==
    /\ pc = 1
    /\ phase = "load"
    /\ interactive \in BOOLEAN
    /\ intern \in [small : BOOLEAN, large : BOOLEAN]
    /\ globals = {}
    /\ classes = [n \in {} |-> None]
    /\ heap = <<>>
    /\ badDefault = None
    /\ out = <<>>
    /\ status = NoStatus
    /\ exc = NoExc
    /\ ncmd = 0
    /\ log = <<>>
    /\ ncalls = [n \in DemoNames |-> 0]
    /\ first = [n \in DemoNames |-> <<>>]
    /\ last = [n \in DemoNames |-> <<>>]
    /\ basket = NoBasket
    /\ parsed = NotParsed

\* The program: the run of the script, and the prompt that python -i leaves
Next ==
    \/ ExecStatement
    \/ \E name \in DemoNames \cup {"main"} : PromptCall(name)
    \/ \E cls \in {"BasketBad", "BasketGood"} : PromptBaskets(cls)

Spec == Init /\ [][Next]_vars

\* add_item_bad and add_item_good called from the prompt, among calls of the
\* demonstration that uses them
NextCalls ==
    \/ ExecStatement
    \/ \E fn \in {"add_item_bad", "add_item_good"}, item \in Items,
          bucket \in 0..Len(heap) : PromptAddItem(fn, item, bucket)
    \/ PromptCall("demo_mutable_default_arg")

SpecCalls == Init /\ [][NextCalls]_vars

\* parse_int_bad and parse_int_good on every argument of ParseInputs
NextParse == \E s \in ParseInputs : ApplyParse(s)

SpecParse == Init /\ [][NextParse]_vars

(***************************************************************************)
(* Claims                                                                  *)
(***************************************************************************)

\* C1: running the script reaches the end of main(): no statement of the load
\* and no demonstration raises, all ten demonstrations have printed their
\* lines, and the process exits with status zero.
C1_RunCompletes ==
    /\ phase \in {"load", "exited"} => exc = NoExc
    /\ phase = "exited" =>
          /\ status = 0
          /\ \A d \in DemoNames : ncalls[d] >= 1 /\ last[d] # <<>>

\* C2 as stated: every demonstration prints the same lines on its first call
\* and on every later call.
C2_EveryDemoStateless ==
    \A d \in DemoNames : ncalls[d] >= 1 => last[d] = first[d]

\* C2, amended: every demonstration other than demo_mutable_default_arg prints
\* the same lines on its first call and on every later call; of
\* demo_mutable_default_arg only the three add_item_bad lines change (all its
\* other lines are the same on every call).
BadLines == {3, 4, 5}
SameOutside(a, b, skip) ==
    /\ Len(a) = Len(b)
    /\ \A i \in 1..Len(a) : i \in skip \/ a[i] = b[i]
C2_StatelessButMutableDefault ==
    /\ \A d \in DemoNames \ {"demo_mutable_default_arg"} :
          ncalls[d] >= 1 => last[d] = first[d]
    /\ ncalls["demo_mutable_default_arg"] >= 1 =>
          SameOutside(first["demo_mutable_default_arg"],
                      last["demo_mutable_default_arg"], BadLines)

\* C2 witness: a demonstration other than demo_mutable_default_arg was called
\* again after a call of another one.
C2_Witness ==
    /\ ncalls["demo_mutable_default_arg"] >= 1
    /\ ncalls["demo_mutating_dict_while_iterating"] >= 2
    /\ last["demo_mutating_dict_while_iterating"] # <<>>

\* C3: add_item_good without a bucket returns exactly [item], a list that is no
\* list returned by an earlier call; with a bucket it appends the item to that
\* list object and returns that object.
C3_GoodMakesNewList ==
    \A i \in 1..Len(log) :
        log[i].fn = "add_item_good" =>
            IF log[i].bucket = None
            THEN /\ log[i].val = <<log[i].item>>
                 /\ \A j \in 1..(i - 1) : log[j].ret # log[i].ret
            ELSE /\ log[i].ret = log[i].bucket
                 /\ log[i].val = Append(log[i].pre, log[i].item)

\* C3 witness: two calls without a bucket, and one with a bucket that an
\* earlier call returned.
C3_Witness ==
    /\ \E i, j \in 1..Len(log) :
          /\ i < j
          /\ log[i].fn = "add_item_good" /\ log[i].bucket = None
          /\ log[j].fn = "add_item_good" /\ log[j].bucket = None
    /\ \E i \in 1..Len(log) : log[i].fn = "add_item_good" /\ log[i].bucket # None

\* C4: BasketBad() instances share one items list (after b1.items.append(1)
\* both b1.items and b2.items are [1]); BasketGood() instances each have their
\* own (g1.items is [1], g2.items is []).
C4_BasketsShareOrNot ==
    /\ basket.cls = "BasketBad" =>
          basket.exc = NoExc /\ basket.items1 = <<1>> /\ basket.items2 = <<1>>
    /\ basket.cls = "BasketGood" =>
          basket.exc = NoExc /\ basket.items1 = <<1>> /\ basket.items2 = <<>>

\* C5: the calls of add_item_bad without a bucket all return the one default
\* list, and the n-th of them returns [i1, ..., in], the items of these calls in
\* order (no other call having been given the default list as its bucket).
IsBadDefaultCall(e) == e.fn = "add_item_bad" /\ e.bucket = None
ItemsOfCalls(es) == [i \in 1..Len(es) |-> es[i].item]
DefaultCallItems(n) == ItemsOfCalls(SelectSeq(SubSeq(log, 1, n), IsBadDefaultCall))
DefaultListPassed(n) == \E j \in 1..n : log[j].bucket # None /\ log[j].bucket = badDefault
C5_BadSharesDefaultList ==
    \A i \in 1..Len(log) :
        IsBadDefaultCall(log[i]) =>
            /\ log[i].ret = badDefault
            /\ \A j \in 1..(i - 1) : IsBadDefaultCall(log[j]) => log[j].ret = log[i].ret
            /\ ~DefaultListPassed(i) => log[i].val = DefaultCallItems(i)
            /\ ~DefaultListPassed(Len(log)) => heap[log[i].ret] = DefaultCallItems(Len(log))

\* C5 witness: three calls without a bucket, not all with the same item, the
\* default list never passed as a bucket.
C5_Witness ==
    /\ ~DefaultListPassed(Len(log))
    /\ Len(DefaultCallItems(Len(log))) >= 3
    /\ \E i, j \in 1..Len(heap[badDefault]) : heap[badDefault][i] # heap[badDefault][j]

\* C6 as stated: parse_int_good returns the integer when int(s) succeeds, 0
\* when it raises ValueError, and lets every other error propagate;
\* parse_int_bad returns 0 for every error; so the two differ exactly when
\* int(s) fails with an error other than ValueError.
ConvFails == parsed.conv.exc # NoExc
ConvValueError == ConvFails /\ IsSubclass(parsed.conv.exc, "ValueError")
C6_BadCatchesEveryError ==
    parsed.applied =>
        /\ ~ConvFails => parsed.good = Returned(parsed.conv.val)
        /\ ConvValueError => parsed.good = Returned(0)
        /\ ConvFails /\ ~ConvValueError => parsed.good = Propagated(parsed.conv.exc)
        /\ ConvFails => parsed.bad = Returned(0)
        /\ (parsed.bad # parsed.good) <=> (ConvFails /\ ~ConvValueError)

\* C6, amended: parse_int_good as stated; parse_int_bad returns 0 for every
\* error that is an Exception, and lets the others (KeyboardInterrupt,
\* SystemExit) propagate; the two differ exactly when int(s) fails with an
\* Exception other than ValueError.
ConvException == ConvFails /\ IsSubclass(parsed.conv.exc, "Exception")
C6_BadCatchesEveryException ==
    parsed.applied =>
        /\ ~ConvFails => parsed.good = Returned(parsed.conv.val)
                         /\ parsed.bad = Returned(parsed.conv.val)
        /\ ConvValueError => parsed.good = Returned(0)
        /\ ConvFails /\ ~ConvValueError => parsed.good = Propagated(parsed.conv.exc)
        /\ ConvException => parsed.bad = Returned(0)
        /\ ConvFails /\ ~ConvException => parsed.bad = Propagated(parsed.conv.exc)
        /\ (parsed.bad # parsed.good) <=> (ConvException /\ ~ConvValueError)

\* C6 witness: int(s) failed with an Exception other than ValueError;
\* parse_int_bad returned 0 and parse_int_good raised.
C6_Witness ==
    /\ parsed.applied
    /\ parsed.conv.exc = "TypeError"
    /\ parsed.bad = Returned(0)
    /\ parsed.good = Propagated("TypeError")

====
